---- MODULE Spec2Model ----
(***************************************************************************)
(* Model of cudf::exp type dispatch (cpp/include/cudf/utils/               *)
(* type_dispatcher.hpp): the compile-time registry type_to_id /            *)
(* id_to_type_impl built by CUDF_TYPE_MAPPING, and type_dispatcher, run    *)
(* by several independent callers on host threads or device lanes.         *)
(***************************************************************************)
EXTENDS Integers, Sequences, FiniteSets, TLC

\* ------------------------------------------------------------------ bounds
NumCallers == 2
MaxEvals == 2

Callers == 1..NumCallers

\* ---------------------------------------------------------- type universe
\* cudf::type_id (cudf/types.hpp): the six ids the dispatcher names, the
\* EMPTY sentinel, and one enumerator that has no registry entry.
TypeIds == {"EMPTY", "INT8", "INT16", "INT32", "INT64", "FLOAT32", "FLOAT64", "NEW_ID"}

\* Concrete C++ types a template can be instantiated with: the registered
\* ones, the marker void, and two types nobody registered.
CppTypes == {"int8_t", "int16_t", "int32_t", "int64_t", "float", "double",
             "void", "bool", "char"}

\* The CUDF_TYPE_MAPPING(Type, Id) invocations, in source order.
CUDF_TYPE_MAPPING ==
  << <<"int8_t", "INT8">>,
     <<"int16_t", "INT16">>,
     <<"int32_t", "INT32">>,
     <<"int64_t", "INT64">>,
     <<"float", "FLOAT32">>,
     <<"double", "FLOAT64">> >>

\* Mutant: the macro forgets to specialise type_to_id, so only the primary
\* template exists.
type_to_id_primary_only(T) == "EMPTY"

\* type_to_id<T>(): the specialisation the macro emitted for T, else the
\* primary template, which returns EMPTY.
type_to_id(T) ==
  IF \E i \in DOMAIN CUDF_TYPE_MAPPING : CUDF_TYPE_MAPPING[i][1] = T
    THEN LET i == CHOOSE k \in DOMAIN CUDF_TYPE_MAPPING : CUDF_TYPE_MAPPING[k][1] = T
         IN CUDF_TYPE_MAPPING[i][2]
    ELSE "EMPTY"

\* Mutant: the specialisation for the sentinel exists and names a usable type.
id_to_type_impl_empty_usable(t) ==
  IF t = "EMPTY" THEN "int8_t"
  ELSE IF \E i \in DOMAIN CUDF_TYPE_MAPPING : CUDF_TYPE_MAPPING[i][2] = t
    THEN LET i == CHOOSE k \in DOMAIN CUDF_TYPE_MAPPING : CUDF_TYPE_MAPPING[k][2] = t
         IN CUDF_TYPE_MAPPING[i][1]
    ELSE "void"

\* id_to_type_impl<t>::type: the specialisation the macro emitted for t,
\* else the primary template, whose member type is void.
id_to_type_impl(t) ==
  IF \E i \in DOMAIN CUDF_TYPE_MAPPING : CUDF_TYPE_MAPPING[i][2] = t
    THEN LET i == CHOOSE k \in DOMAIN CUDF_TYPE_MAPPING : CUDF_TYPE_MAPPING[k][2] = t
         IN CUDF_TYPE_MAPPING[i][1]
    ELSE "void"

\* id_to_type<t>, the alias of id_to_type_impl<t>::type.
id_to_type(t) == id_to_type_impl(t)

\* The substitute registry of the documentation: every id maps to int32_t.
always_int(t) == "int32_t"

\* The registries a call site may name as the IdTypeMap template argument.
IdTypeMaps == {"id_to_type_impl", "always_int"}

\* IdTypeMap<t>::type for the registry named m.
IdTypeMap(m, t) ==
  IF m = "always_int" THEN always_int(t) ELSE id_to_type_impl(t)

\* sizeof(T) for the registered types, as size_of_functor returns it.
SizeOf(T) ==
  CASE T = "int8_t" -> 1
    [] T = "int16_t" -> 2
    [] T = "int32_t" -> 4
    [] T = "int64_t" -> 8
    [] T = "float" -> 4
    [] T = "double" -> 8
    [] OTHER -> 0

\* ------------------------------------------------------------------ state
VARIABLES
  pc,       \* pc[c]: where caller c's dispatch is: idle, invoke, returned, failed, halted
  dtype,    \* dtype[c]: dtype.id() of caller c's call
  idmap,    \* idmap[c]: the IdTypeMap template argument of caller c's call site
  ctx,      \* ctx[c]: "host" (__CUDA_ARCH__ undefined) or "device"
  functor,  \* functor[c]: the caller's own callable object
  f,        \* f[k]: the by-value parameter f held in activation frame k
  branch,   \* branch[k]: the case label the switch of frame k selected
  arg,      \* arg[c]: the caller's variable forwarded by reference as args
  invoked,  \* invoked[c]: the types operator() was invoked with by this call
  result,   \* result[c]: <<r>> once the call returned r to the caller
  err,      \* err[c]: <<msg>> once the call reported a failure to the caller
  evals     \* compile-time evaluations of the registry, in order

vars == <<pc, dtype, idmap, ctx, functor, f, branch, arg, invoked, result, err, evals>>

Contexts == {"host", "device"}

\* A callable object: its only data member is an invocation counter.
NewFunctor == [count |-> 0]

\* f.template operator()<T>(n): counts in the object it runs on, counts in
\* the forwarded reference n, returns sizeof(T).
Invocation(fn, T, n) ==
  [f |-> [count |-> fn.count + 1], arg |-> n + 1, ret |-> SizeOf(T)]

\* Mutant: a case was added for the new enumerator, whose registry entry
\* is missing.
CasesWithNewId ==
  << <<"INT8", "INT8">>,
     <<"INT16", "INT16">>,
     <<"INT32", "INT32">>,
     <<"INT64", "INT64">>,
     <<"FLOAT32", "FLOAT32">>,
     <<"FLOAT64", "FLOAT64">>,
     <<"NEW_ID", "NEW_ID">> >>

\* Mutant: one case names the template argument of its neighbour.
CasesPasted ==
  << <<"INT8", "INT8">>,
     <<"INT16", "INT16">>,
     <<"INT32", "INT32">>,
     <<"INT64", "INT64">>,
     <<"FLOAT32", "FLOAT64">>,
     <<"FLOAT64", "FLOAT64">> >>

\* The case labels of the switch, each with the id its body passes to
\* IdTypeMap<...>.
Cases ==
  << <<"INT8", "INT8">>,
     <<"INT16", "INT16">>,
     <<"INT32", "INT32">>,
     <<"INT64", "INT64">>,
     <<"FLOAT32", "FLOAT32">>,
     <<"FLOAT64", "FLOAT64">> >>

CaseLabels == {Cases[i][1] : i \in DOMAIN Cases}

\* Mutant: the default label sits in front of case INT8, so every id
\* without a case of its own runs the INT8 body.
SwitchCaseDefaultFallsThrough(id) ==
  IF id \in CaseLabels THEN id ELSE "INT8"

\* switch (dtype.id()): the label control jumps to.
SwitchCase(id) ==
  IF id \in CaseLabels THEN id ELSE "default"

\* Mutant: whether an id is supported is asked of the registry in use, so
\* an id the registry maps to a usable type runs a case body.
SelectedBranchByRegistry(m, id) ==
  IF id \in CaseLabels THEN id
  ELSE IF IdTypeMap(m, id) # "void" THEN "INT8" ELSE "default"

\* The branch type_dispatcher<m> takes for id: the switch is on
\* dtype.id() alone, whatever IdTypeMap is.
SelectedBranch(m, id) == SwitchCase(id)

\* Mutant: the body ignores the IdTypeMap template parameter.
DispatchedTypeDefaultRegistry(m, label) ==
  IF \E k \in DOMAIN Cases : Cases[k][1] = label
    THEN LET i == CHOOSE k \in DOMAIN Cases : Cases[k][1] = label
         IN id_to_type_impl(Cases[i][2])
    ELSE "void"

\* typename IdTypeMap<Id>::type in the body of case `label` (void stands
\* for "no such body").
DispatchedType(m, label) ==
  IF \E k \in DOMAIN Cases : Cases[k][1] = label
    THEN LET i == CHOOSE k \in DOMAIN Cases : Cases[k][1] = label
         IN IdTypeMap(m, Cases[i][2])
    ELSE "void"

\* The instantiations of operator() that compiling type_dispatcher<m>
\* requires: one per case body, and operator()<int8_t> inside decltype on
\* the device path.
Instantiations(m, cx) ==
  {DispatchedType(m, Cases[i][1]) : i \in DOMAIN Cases}
    \cup (IF cx = "device" THEN {"int8_t"} ELSE {})

\* CUDF_FAIL(msg) (utilities/error_utils.hpp): throws msg to the caller.
CUDF_FAIL(msg) == [pc |-> "failed", err |-> <<msg>>, result |-> <<>>]

\* release_assert(e) (utilities/release_assert.cuh): TRUE when execution
\* goes on past it; a false e traps the lane.
release_assert(e) == e

\* return_type(): the value-initialised placeholder of the device path.
PlaceholderResult == <<0>>

\* Mutant: the assertion is compiled out, as a plain assert is in a
\* release build, and the placeholder is returned.
DefaultBranchAssertCompiledOut(cx) ==
  IF cx = "host"
    THEN CUDF_FAIL("Unsupported type_id.")
    ELSE [pc |-> "returned", err |-> <<>>, result |-> PlaceholderResult]

\* The default: block of the switch, per compilation pass.
DefaultBranch(cx) ==
  IF cx = "host"
    THEN CUDF_FAIL("Unsupported type_id.")
    ELSE IF release_assert(FALSE)
      THEN [pc |-> "returned", err |-> <<>>, result |-> PlaceholderResult]
      ELSE [pc |-> "halted", err |-> <<>>, result |-> <<>>]

\* Mutant: f, and the switch's target, live in static storage.
StaticFrame(c) == 1

\* The activation frame holding the parameters and locals of caller c's
\* call: every call has its own.
Frame(c) == c

\* Mutant: f is taken by reference, so the instantiation runs on the
\* caller's object.
FunctorAfterCallByReference(own, param) == param

\* The caller's callable after the call returned: f was passed by value,
\* so the parameter object dies with the frame.
FunctorAfterCall(own, param) == own

\* type_dispatcher run to completion on its own: the outcome of one call.
type_dispatcher(id, m, cx, fn, n) ==
  LET label == SelectedBranch(m, id) IN
  IF label # "default"
    THEN LET T == DispatchedType(m, label)
             r == Invocation(fn, T, n)
         IN [pc |-> "returned", invoked |-> <<T>>, result |-> <<r.ret>>,
             err |-> <<>>, arg |-> r.arg, functor |-> FunctorAfterCall(fn, r.f)]
    ELSE LET d == DefaultBranch(cx)
         IN [pc |-> d.pc, invoked |-> <<>>, result |-> d.result,
             err |-> d.err, arg |-> n, functor |-> fn]

\* ------------------------------------------------------------------- init
Init ==
  /\ pc = [c \in Callers |-> "idle"]
  /\ dtype = [c \in Callers |-> "EMPTY"]
  /\ idmap = [c \in Callers |-> "id_to_type_impl"]
  /\ ctx = [c \in Callers |-> "host"]
  /\ functor = [c \in Callers |-> NewFunctor]
  /\ f = [c \in Callers |-> NewFunctor]
  /\ branch = [c \in Callers |-> "none"]
  /\ arg = [c \in Callers |-> 0]
  /\ invoked = [c \in Callers |-> <<>>]
  /\ result = [c \in Callers |-> <<>>]
  /\ err = [c \in Callers |-> <<>>]
  /\ evals = <<>>

\* ---------------------------------------------------------------- actions
\* Caller c enters type_dispatcher<m>(data_type{id}, functor[c], arg[c]):
\* f is copied into the frame and the switch is evaluated.  An id without
\* a case ends the call here, by exception on the host and by trap on the
\* device.
Call(c, id, m, cx) ==
  /\ pc[c] = "idle"
  /\ dtype' = [dtype EXCEPT ![c] = id]
  /\ idmap' = [idmap EXCEPT ![c] = m]
  /\ ctx' = [ctx EXCEPT ![c] = cx]
  /\ f' = [f EXCEPT ![Frame(c)] = functor[c]]
  /\ branch' = [branch EXCEPT ![Frame(c)] = SelectedBranch(m, id)]
  /\ IF SelectedBranch(m, id) # "default"
       THEN /\ pc' = [pc EXCEPT ![c] = "invoke"]
            /\ UNCHANGED <<err, result>>
       ELSE /\ pc' = [pc EXCEPT ![c] = DefaultBranch(cx).pc]
            /\ err' = [err EXCEPT ![c] = DefaultBranch(cx).err]
            /\ result' = [result EXCEPT ![c] = DefaultBranch(cx).result]
  /\ UNCHANGED <<functor, arg, invoked, evals>>

\* The body of the selected case: the instantiation runs on the frame's f
\* with the forwarded argument, and its value is returned to the caller.
Invoke(c) ==
  /\ pc[c] = "invoke"
  /\ LET T == DispatchedType(idmap[c], branch[Frame(c)])
         r == Invocation(f[Frame(c)], T, arg[c])
     IN /\ f' = [f EXCEPT ![Frame(c)] = r.f]
        /\ arg' = [arg EXCEPT ![c] = r.arg]
        /\ invoked' = [invoked EXCEPT ![c] = Append(@, T)]
        /\ result' = [result EXCEPT ![c] = <<r.ret>>]
        /\ functor' = [functor EXCEPT ![c] = FunctorAfterCall(@, r.f)]
  /\ pc' = [pc EXCEPT ![c] = "returned"]
  /\ UNCHANGED <<dtype, idmap, ctx, branch, err, evals>>

\* A translation unit evaluates type_to_id<T>().
EvalTypeToId(T) ==
  /\ Len(evals) < MaxEvals
  /\ evals' = Append(evals, [fn |-> "type_to_id", in |-> T, out |-> type_to_id(T)])
  /\ UNCHANGED <<pc, dtype, idmap, ctx, functor, f, branch, arg, invoked, result, err>>

\* A translation unit names id_to_type<t>.
EvalIdToType(t) ==
  /\ Len(evals) < MaxEvals
  /\ evals' = Append(evals, [fn |-> "id_to_type", in |-> t, out |-> id_to_type(t)])
  /\ UNCHANGED <<pc, dtype, idmap, ctx, functor, f, branch, arg, invoked, result, err>>

\* --------------------------------------------------------- specifications
Next ==
  \/ \E c \in Callers, id \in TypeIds, m \in IdTypeMaps, cx \in Contexts : Call(c, id, m, cx)
  \/ \E c \in Callers : Invoke(c)

Spec == Init /\ [][Next]_vars

RegistryNext ==
  \/ \E T \in CppTypes : EvalTypeToId(T)
  \/ \E t \in TypeIds : EvalIdToType(t)

RegistrySpec == Init /\ [][RegistryNext]_vars

\* ----------------------------------------------------------------- claims
\* What the claims call the supported set, the registered types, and the
\* pairing and byte widths they state.
SupportedSet == {"INT8", "INT16", "INT32", "INT64", "FLOAT32", "FLOAT64"}

RegisteredTypes == {"int8_t", "int16_t", "int32_t", "int64_t", "float", "double"}

StatedType(id) ==
  CASE id = "INT8" -> "int8_t"
    [] id = "INT16" -> "int16_t"
    [] id = "INT32" -> "int32_t"
    [] id = "INT64" -> "int64_t"
    [] id = "FLOAT32" -> "float"
    [] id = "FLOAT64" -> "double"

StatedSize(id) ==
  CASE id = "INT8" -> 1
    [] id = "INT16" -> 2
    [] id = "INT32" -> 4
    [] id = "INT64" -> 8
    [] id = "FLOAT32" -> 4
    [] id = "FLOAT64" -> 8

UnsupportedMsg == "Unsupported type_id."

Entered(c) == pc[c] # "idle"

\* C1: with the default registry, a dispatch on a supported id invokes the
\* callable exactly once, with the type registered for that id, and returns
\* that invocation's result: the size functor yields 1, 2, 4, 8, 4, 8.
C1_SupportedDispatch ==
  \A c \in Callers :
    (Entered(c) /\ idmap[c] = "id_to_type_impl" /\ dtype[c] \in SupportedSet) =>
      /\ pc[c] \in {"invoke", "returned"}
      /\ err[c] = <<>>
      /\ pc[c] = "invoke" => (invoked[c] = <<>> /\ result[c] = <<>>)
      /\ pc[c] = "returned" =>
           /\ invoked[c] = <<StatedType(dtype[c])>>
           /\ result[c] = <<StatedSize(dtype[c])>>

C1_Witness ==
  \E c \in Callers :
    /\ pc[c] = "returned" /\ idmap[c] = "id_to_type_impl"
    /\ dtype[c] = "FLOAT32" /\ result[c] = <<4>>

\* C2: on the host, a dispatch on any id outside the supported set, the
\* EMPTY sentinel included, reports "Unsupported type_id." to its caller and
\* invokes no instantiation: no effect of the callable occurs.
C2_HostUnsupportedFails ==
  \A c \in Callers :
    (Entered(c) /\ ctx[c] = "host" /\ dtype[c] \notin SupportedSet) =>
      /\ pc[c] = "failed"
      /\ err[c] = <<UnsupportedMsg>>
      /\ invoked[c] = <<>>
      /\ result[c] = <<>>
      /\ arg[c] = 0

C2_Witness ==
  \E c \in Callers :
    /\ pc[c] = "failed" /\ ctx[c] = "host" /\ dtype[c] = "EMPTY"
    /\ \E d \in Callers : pc[d] = "failed" /\ ctx[d] = "host" /\ dtype[d] = "NEW_ID"

\* C3: the registry is a bijection on the supported set: type_to_id of
\* id_to_type<Id> is Id for every supported Id, id_to_type of
\* type_to_id<T>() is T for every registered T, and two supported ids never
\* yield the same type.
C3_RegistryBijection ==
  \A i, j \in DOMAIN evals :
    /\ ( /\ evals[i].fn = "id_to_type" /\ evals[i].in \in SupportedSet
         /\ evals[j].fn = "type_to_id" /\ evals[j].in = evals[i].out )
       => evals[j].out = evals[i].in
    /\ ( /\ evals[i].fn = "type_to_id" /\ evals[i].in \in RegisteredTypes
         /\ evals[j].fn = "id_to_type" /\ evals[j].in = evals[i].out )
       => evals[j].out = evals[i].in
    /\ ( /\ evals[i].fn = "id_to_type" /\ evals[i].in \in SupportedSet
         /\ evals[j].fn = "id_to_type" /\ evals[j].in \in SupportedSet
         /\ evals[i].in # evals[j].in )
       => evals[i].out # evals[j].out

C3_Witness ==
  /\ Len(evals) = 2
  /\ evals[1].fn = "id_to_type" /\ evals[1].in = "INT64"
  /\ evals[2].fn = "type_to_id" /\ evals[2].in = evals[1].out
  /\ evals[2].out = "INT64"

\* C4: with the substitute registry that maps every id to int32_t, a
\* dispatch on any supported id invokes the callable with int32_t, whatever
\* the id.
C4_AlwaysIntDispatch ==
  \A c \in Callers :
    (Entered(c) /\ idmap[c] = "always_int" /\ dtype[c] \in SupportedSet) =>
      /\ pc[c] \in {"invoke", "returned"}
      /\ pc[c] = "returned" =>
           /\ invoked[c] = <<"int32_t">>
           /\ result[c] = <<4>>

C4_Witness ==
  \E c \in Callers :
    /\ pc[c] = "returned" /\ idmap[c] = "always_int"
    /\ dtype[c] = "FLOAT64" /\ invoked[c] = <<"int32_t">>

\* C5: a substitute registry changes only the type instantiated: a
\* dispatch through it takes the branch the default registry's dispatch
\* takes for the same id, and an unsupported id still ends in the
\* unsupported-id failure with no invocation.
C5_SubstituteKeepsBranch ==
  \A c \in Callers :
    (Entered(c) /\ idmap[c] # "id_to_type_impl") =>
      /\ branch[c] = (IF dtype[c] \in SupportedSet THEN dtype[c] ELSE "default")
      /\ \A d \in Callers :
           (Entered(d) /\ idmap[d] = "id_to_type_impl" /\ dtype[d] = dtype[c]) =>
             /\ branch[d] = branch[c]
             /\ (pc[d] \in {"failed", "halted"}) = (pc[c] \in {"failed", "halted"})
      /\ dtype[c] \notin SupportedSet =>
           /\ pc[c] = (IF ctx[c] = "host" THEN "failed" ELSE "halted")
           /\ invoked[c] = <<>>
           /\ arg[c] = 0

C5_Witness ==
  \E c, d \in Callers :
    /\ idmap[c] = "always_int" /\ idmap[d] = "id_to_type_impl"
    /\ dtype[c] = "EMPTY" /\ dtype[d] = "EMPTY"
    /\ pc[c] = "failed" /\ pc[d] = "failed"

Finished(c) == pc[c] \in {"returned", "failed", "halted"}

\* C6: calls running concurrently, each with its own id, callable and
\* arguments, end for every call exactly as that call run on its own does.
C6_ConcurrentAsSequential ==
  \A c \in Callers :
    Finished(c) =>
      LET alone == type_dispatcher(dtype[c], idmap[c], ctx[c], NewFunctor, 0)
      IN /\ pc[c] = alone.pc
         /\ invoked[c] = alone.invoked
         /\ result[c] = alone.result
         /\ err[c] = alone.err
         /\ arg[c] = alone.arg
         /\ functor[c] = alone.functor

C6_Witness ==
  \E c, d \in Callers :
    /\ c # d
    /\ pc[c] = "returned" /\ pc[d] = "returned"
    /\ dtype[c] = "INT8" /\ dtype[d] = "FLOAT64"
    /\ result[c] = <<1>> /\ result[d] = <<8>>

\* C7: on the device, a dispatch on an id outside the supported set stops
\* the lane at the trap: no instantiation is invoked and no value, the
\* placeholder included, reaches the caller.
C7_DeviceUnsupportedHalts ==
  \A c \in Callers :
    (Entered(c) /\ ctx[c] = "device" /\ dtype[c] \notin SupportedSet) =>
      /\ pc[c] = "halted"
      /\ invoked[c] = <<>>
      /\ result[c] = <<>>
      /\ err[c] = <<>>
      /\ arg[c] = 0

C7_Witness ==
  \E c \in Callers :
    pc[c] = "halted" /\ ctx[c] = "device" /\ dtype[c] = "EMPTY"

\* C8: an enumerator without a registry entry fails at dispatch exactly as
\* the sentinel does, is never run with a wrong or marker type, and
\* compiling the dispatcher instantiates the callable with no marker type.
C8_UnregisteredIdAsSentinel ==
  /\ \A c \in Callers :
       (Entered(c) /\ dtype[c] \notin SupportedSet \cup {"EMPTY"}) =>
         /\ pc[c] \in {"failed", "halted"}
         /\ invoked[c] = <<>>
         /\ ctx[c] = "host" => err[c] = <<UnsupportedMsg>>
         /\ \A d \in Callers :
              (Entered(d) /\ dtype[d] = "EMPTY" /\ ctx[d] = ctx[c]) =>
                /\ pc[d] = pc[c]
                /\ err[d] = err[c]
                /\ result[d] = result[c]
                /\ invoked[d] = invoked[c]
  /\ \A cx \in Contexts : "void" \notin Instantiations("id_to_type_impl", cx)

C8_Witness ==
  \E c, d \in Callers :
    /\ dtype[c] = "NEW_ID" /\ dtype[d] = "EMPTY"
    /\ ctx[c] = "host" /\ ctx[d] = "host"
    /\ pc[c] = "failed" /\ pc[d] = "failed"
    /\ idmap[c] = "id_to_type_impl"

\* C9: outside the six registered pairs the registry yields nothing
\* usable: id_to_type of any other id, EMPTY included, is void; type_to_id
\* of any other type is EMPTY; and no registered type maps to EMPTY.
C9_UnregisteredYieldNothing ==
  \A i \in DOMAIN evals :
    /\ (evals[i].fn = "id_to_type" /\ evals[i].in \notin SupportedSet)
         => (evals[i].out = "void" /\ evals[i].out \notin RegisteredTypes)
    /\ (evals[i].fn = "type_to_id" /\ evals[i].in \notin RegisteredTypes)
         => evals[i].out = "EMPTY"
    /\ (evals[i].fn = "type_to_id" /\ evals[i].in \in RegisteredTypes)
         => evals[i].out # "EMPTY"

C9_Witness ==
  /\ Len(evals) = 2
  /\ evals[1].fn = "id_to_type" /\ evals[1].in = "EMPTY" /\ evals[1].out = "void"
  /\ evals[2].fn = "type_to_id" /\ evals[2].in = "bool" /\ evals[2].out = "EMPTY"

\* C10: the callable is taken by value: whatever a dispatch did, the
\* caller's callable object is as it was, while the effect made through the
\* forwarded argument is visible to the caller.
C10_CallerFunctorUnchanged ==
  \A c \in Callers :
    /\ functor[c] = NewFunctor
    /\ pc[c] = "returned" => (arg[c] = 1 /\ f[c].count = 1)
    /\ pc[c] \in {"failed", "halted"} => (arg[c] = 0 /\ f[c].count = 0)

C10_Witness ==
  \E c, d \in Callers :
    /\ pc[c] = "returned" /\ functor[c].count = 0 /\ arg[c] = 1
    /\ pc[d] = "failed" /\ functor[d].count = 0

====
